---- MODULE Spec2Model ----
(***************************************************************************)
(* Model of convert_s2t.py: a text file is read line by line, converted,   *)
(* turned into a platypus story (title, page breaks, chapter headings,     *)
(* body paragraphs and spacers), laid out by the document template on a    *)
(* PageNumCanvas (pass 1: pages are only captured), and written by         *)
(* PageNumCanvas.save (pass 2: bookmarks replayed, footers stamped, pages  *)
(* committed).                                                             *)
(*                                                                         *)
(* Characters are modelled by their class:                                 *)
(*   "DI"    the glyph U+7B2C that opens a chapter heading                 *)
(*   "NUM"   one of the numerals of the pattern's class other than U+4E07  *)
(*   "WAN"   U+4E07, the simplified numeral of the pattern's class         *)
(*   "WAN_T" U+842C, its traditional form (not in the pattern's class)     *)
(*   "DIGIT" a decimal digit (\d)                                          *)
(*   "HUI"   the glyph U+56DE that closes the heading's ordinal            *)
(*   "SP"    a whitespace character                                        *)
(*   "CH"    any other character                                           *)
(* A line of the input file is a record [text, n]: its characters and the  *)
(* number of lines it wraps to once set as a paragraph (font metrics are   *)
(* outside the program).                                                   *)
(***************************************************************************)
EXTENDS Integers, Sequences, FiniteSets, TLC

VARIABLES raw, lines, pc, story, doc, canv, sv, pdf

vars == <<raw, lines, pc, story, doc, canv, sv, pdf>>

\* ------------------------------------------------------------------ bounds

\* Largest number of lines of the input file.
MaxLines == 4

\* The lines the input file is made of.
LineChoices ==
    { [text |-> <<>>, n |-> 0],
      [text |-> <<"SP">>, n |-> 0],
      [text |-> <<"DI", "NUM", "HUI">>, n |-> 1],
      [text |-> <<"SP", "DI", "DIGIT", "HUI", "CH", "SP">>, n |-> 5],
      [text |-> <<"CH">>, n |-> 3],
      [text |-> <<"CH", "SP", "CH">>, n |-> 5],
      [text |-> <<"CH", "DI", "NUM", "HUI">>, n |-> 30],
      [text |-> <<"DI", "WAN", "HUI">>, n |-> 1] }

\* ------------------------------------------------------------------ PDFConfig

PAGE_HEIGHT == 792
MARGIN_TOP == 72
MARGIN_BOTTOM == 72
TITLE_LEADING == 30
CHAPTER_LEADING == 22
BODY_LEADING == 18
SPACE_AFTER_TITLE == 40
SPACE_AFTER_CHAPTER == 20
SPACE_BEFORE_CHAPTER == 20
SPACE_AFTER_PARA == 6

\* ------------------------------------------------------------------ text

RECURSIVE lstrip(_)
lstrip(t) ==
    IF t # <<>> /\ Head(t) = "SP" THEN lstrip(Tail(t)) ELSE t

RECURSIVE rstrip(_)
rstrip(t) ==
    IF t # <<>> /\ t[Len(t)] = "SP" THEN rstrip(SubSeq(t, 1, Len(t) - 1)) ELSE t

\* str.strip(): leading and trailing whitespace removed.
strip(t) == rstrip(lstrip(t))

\* OpenCC("s2twp").convert: simplified characters become traditional ones.
cc_convert(t) == [k \in 1..Len(t) |-> IF t[k] = "WAN" THEN "WAN_T" ELSE t[k]]

\* The character class of chapter_pattern.
NumeralClass == {"NUM", "WAN", "DIGIT"}

\* chapter_pattern.match(line): DI, one or more of the class, HUI, at the start.
chapter_match(t) ==
    /\ Len(t) >= 3
    /\ t[1] = "DI"
    /\ \E k \in 3..Len(t) :
          /\ t[k] = "HUI"
          /\ \A j \in 2..(k - 1) : t[j] \in NumeralClass

\* lines = [cc.convert(line.strip()) for line in f.readlines()]
ReadLines(file) ==
    [k \in 1..Len(file) |-> [text |-> cc_convert(strip(file[k].text)), n |-> file[k].n]]

\* ------------------------------------------------------------------ story

\* A flowable of the story. src is the index (from 0) of the line that made
\* it, n the number of text lines it holds and lo the first of them,
\* is_chapter the attribute afterFlowable looks for.
Flowable(kind, src, n) ==
    [kind |-> kind, src |-> src, n |-> n, lo |-> 1,
     is_chapter |-> FALSE, chapter_title |-> <<>>, chapter_key |-> -1]

\* The heading paragraph of line i: p.is_chapter, p.chapter_title and
\* p.chapter_key are set; the key chap_{i} is modelled by i.
ChapterFlowable(i, line) ==
    [kind |-> "Chapter", src |-> i, n |-> line.n, lo |-> 1,
     is_chapter |-> TRUE, chapter_title |-> line.text, chapter_key |-> i]

\* (The loop body with a page break before every heading, the first too.)
StoryStep_AlwaysBreak(ls, i, found) ==
    LET line == ls[i + 1] IN
    IF line.text = <<>> THEN [add |-> <<>>, found |-> found]
    ELSE IF i = 0 THEN
        [add |-> <<Flowable("Title", i, line.n), Flowable("PageBreak", i, 0)>>,
         found |-> found]
    ELSE IF chapter_match(line.text) THEN
        [add |-> <<Flowable("PageBreak", i, 0), ChapterFlowable(i, line)>>,
         found |-> TRUE]
    ELSE
        [add |-> <<Flowable("Body", i, line.n), Flowable("Spacer", i, 0)>>,
         found |-> found]

\* The body of the loop over enumerate(lines) for line i (from 0):
\* the flowables it appends and the new value of first_chapter_found.
StoryStep(ls, i, found) ==
    LET line == ls[i + 1] IN
    IF line.text = <<>> THEN [add |-> <<>>, found |-> found]
    ELSE IF i = 0 THEN
        [add |-> <<Flowable("Title", i, line.n), Flowable("PageBreak", i, 0)>>,
         found |-> found]
    ELSE IF chapter_match(line.text) THEN
        [add |-> (IF found THEN <<Flowable("PageBreak", i, 0)>> ELSE <<>>)
                 \o <<ChapterFlowable(i, line)>>,
         found |-> TRUE]
    ELSE
        [add |-> <<Flowable("Body", i, line.n), Flowable("Spacer", i, 0)>>,
         found |-> found]

RECURSIVE StoryFrom(_, _, _)
StoryFrom(ls, i, found) ==
    IF i >= Len(ls) THEN <<>>
    ELSE LET r == StoryStep(ls, i, found) IN r.add \o StoryFrom(ls, i + 1, r.found)

\* The story built from the converted lines.
BuildStory(ls) == StoryFrom(ls, 0, FALSE)

\* ------------------------------------------------------------------ styles

\* The available height of the document's single frame: the page less the
\* top and bottom margins and the frame's paddings of 6 points each.
FrameHeight == PAGE_HEIGHT - MARGIN_TOP - MARGIN_BOTTOM - 2 * 6

IsParagraph(f) == f.kind \in {"Title", "Chapter", "Body"}

\* title_style, chapter_style, body_style.
Leading(f) ==
    CASE f.kind = "Title" -> TITLE_LEADING
      [] f.kind = "Chapter" -> CHAPTER_LEADING
      [] OTHER -> BODY_LEADING

SpaceBefore(f) == IF f.kind = "Chapter" THEN SPACE_BEFORE_CHAPTER ELSE 0

SpaceAfter(f) ==
    CASE f.kind = "Title" -> SPACE_AFTER_TITLE
      [] f.kind = "Chapter" -> SPACE_AFTER_CHAPTER
      [] OTHER -> 0

\* The height a flowable wraps to: Spacer(1, SPACE_AFTER_PARA), or the
\* paragraph's lines at its style's leading.
Height(f) == IF f.kind = "Spacer" THEN SPACE_AFTER_PARA ELSE f.n * Leading(f)

\* ------------------------------------------------------------------ PageNumCanvas

\* (bookmarkPage passing the call on to the real canvas at once.)
bookmarkPage_Direct(w, key) ==
    [w EXCEPT !.pdf.log = @ \o <<[ev |-> "bookmarkPage", key |-> key,
                                  page |-> Len(w.pdf.pages), during |-> w.pc]>>]

\* PageNumCanvas.bookmarkPage: the call is recorded, not made.
bookmarkPage(w, key) ==
    [w EXCEPT !.canv._current_page_bookmarks = @ \o <<[tag |-> "bookmark", key |-> key]>>]

\* PageNumCanvas.addOutlineEntry: the call is recorded, not made.
addOutlineEntry(w, title, key, level, closed) ==
    [w EXCEPT !.canv._current_page_bookmarks =
        @ \o <<[tag |-> "outline", title |-> title, key |-> key,
                level |-> level, closed |-> closed]>>]

\* Canvas._startPage: the next page number and empty accumulators.
StartPage(c) == [c EXCEPT !._pageNumber = @ + 1, !._code = <<>>]

\* (showPage writing the page to the document instead of capturing it.)
showPage_Commits(w) ==
    LET page == [code |-> w.canv._code, number |-> w.canv._pageNumber] IN
    [w EXCEPT !.pdf.pages = @ \o <<page>>,
              !.pdf.log = @ \o <<[ev |-> "showPage", page |-> Len(w.pdf.pages), during |-> w.pc]>>,
              !.canv._pageNumber = @ + 1,
              !.canv._code = <<>>]

\* (showPage without the reset of the per-page buffer.)
showPage_NoReset(w) ==
    LET c == w.canv
        page_state == [_pageNumber |-> c._pageNumber,
                       _code |-> c._code,
                       _current_page_bookmarks |-> c._current_page_bookmarks,
                       _bookmarks |-> c._current_page_bookmarks]
        c1 == [c EXCEPT !._saved_page_states = @ \o <<page_state>>]
    IN [w EXCEPT !.canv = [c1 EXCEPT !._pageNumber = @ + 1, !._code = <<>>]]

\* (showPage capturing the whole of self.__dict__, the list of the page
\* states captured before included.)
showPage_KeepsHistory(w) ==
    LET c == w.canv
        page_state == [_pageNumber |-> c._pageNumber,
                       _code |-> c._code,
                       _current_page_bookmarks |-> c._current_page_bookmarks,
                       _saved_page_states |-> c._saved_page_states,
                       _bookmarks |-> c._current_page_bookmarks]
        c1 == [c EXCEPT !._saved_page_states = @ \o <<page_state>>,
                        !._current_page_bookmarks = <<>>]
    IN [w EXCEPT !.canv = StartPage(c1)]

\* PageNumCanvas.showPage up to the call of self._startPage(): the page
\* state is captured and the per-page buffer replaced by an empty one.
\* This is also the state left when _startPage raises.
showPage_captured(w) ==
    LET c == w.canv
        page_state == [_pageNumber |-> c._pageNumber,
                       _code |-> c._code,
                       _current_page_bookmarks |-> c._current_page_bookmarks,
                       _bookmarks |-> c._current_page_bookmarks]
    IN [w EXCEPT !.canv._saved_page_states = @ \o <<page_state>>,
                 !.canv._current_page_bookmarks = <<>>]

\* PageNumCanvas.showPage: the page is captured and a new one started;
\* nothing is written to the document.
showPage(w) == [showPage_captured(w) EXCEPT !.canv = StartPage(@)]

\* canvas.Canvas.bookmarkPage (super): the bookmark is bound to the page
\* the document is building, the one the next commit writes.
super_bookmarkPage(w, key) ==
    [w EXCEPT !.pdf.log = @ \o <<[ev |-> "bookmarkPage", key |-> key,
                                  page |-> Len(w.pdf.pages), during |-> w.pc]>>]

\* canvas.Canvas.addOutlineEntry (super).
super_addOutlineEntry(w, title, key, level, closed) ==
    [w EXCEPT !.pdf.log = @ \o <<[ev |-> "addOutlineEntry", title |-> title, key |-> key,
                                  level |-> level, closed |-> closed,
                                  page |-> Len(w.pdf.pages), during |-> w.pc]>>]

\* canvas.Canvas.showPage (super): the page is committed to the document.
super_showPage(w) ==
    LET page == [code |-> w.canv._code, number |-> w.canv._pageNumber] IN
    [w EXCEPT !.pdf.pages = @ \o <<page>>,
              !.pdf.log = @ \o <<[ev |-> "showPage", page |-> Len(w.pdf.pages), during |-> w.pc]>>,
              !.canv = StartPage(@)]

\* (draw_page_number counting the title page in the total.)
draw_page_number_Unadjusted(w, page_count) ==
    LET current_page == w.canv._pageNumber - 1
        total_adjusted == page_count
    IN [w EXCEPT !.canv._code =
          @ \o <<[kind |-> "Footer", current_page |-> current_page, total |-> total_adjusted]>>]

\* PageNumCanvas.draw_page_number: the rule and the "Page X of Y" text.
draw_page_number(w, page_count) ==
    LET current_page == w.canv._pageNumber - 1
        total_adjusted == page_count - 1
    IN [w EXCEPT !.canv._code =
          @ \o <<[kind |-> "Footer", current_page |-> current_page, total |-> total_adjusted]>>]

\* ------------------------------------------------------------------ OutlineDocTemplate

\* (afterFlowable adding the outline entry before the bookmark it names.)
afterFlowable_OutlineFirst(w, f) ==
    IF IsParagraph(f) /\ f.is_chapter
    THEN bookmarkPage(addOutlineEntry(w, f.chapter_title, f.chapter_key, 0, TRUE), f.chapter_key)
    ELSE w

\* OutlineDocTemplate.afterFlowable.
afterFlowable(w, f) ==
    IF IsParagraph(f) /\ f.is_chapter
    THEN addOutlineEntry(bookmarkPage(w, f.chapter_key), f.chapter_title, f.chapter_key, 0, TRUE)
    ELSE w

\* Frame._add: the space kept before the flowable (none at the top of the
\* frame; otherwise what exceeds the space after the previous flowable).
SpaceKept(d, f) ==
    IF d.atTop THEN 0
    ELSE IF SpaceBefore(f) > d.prevASpace THEN SpaceBefore(f) - d.prevASpace ELSE 0

\* Frame._add: the flowable fits in what is left of the frame.
Fits(d, f) ==
    /\ d.avail - SpaceKept(d, f) > 0
    /\ Height(f) + SpaceKept(d, f) <= d.avail

\* Frame._add: the flowable is drawn and the frame's cursor moved down.
Draw(w, f) ==
    LET d == w.doc
        used == Height(f) + SpaceKept(d, f) + SpaceAfter(f)
    IN [w EXCEPT !.canv._code = @ \o <<f>>,
                 !.doc.avail = @ - used,
                 !.doc.prevASpace = SpaceAfter(f),
                 !.doc.atTop = IF used # 0 THEN FALSE ELSE @]

\* (Paragraph.split leaving a single line behind.)
Split_AllowOrphans(d, f) ==
    LET availHeight == d.avail - SpaceKept(d, f)
        s == availHeight \div Leading(f)
    IN IF ~IsParagraph(f) \/ availHeight <= 0 \/ s <= 0 THEN <<>>
       ELSE IF f.n <= s THEN <<f>>
       ELSE <<[f EXCEPT !.n = s, !.is_chapter = FALSE,
                        !.chapter_title = <<>>, !.chapter_key = -1],
              [f EXCEPT !.n = f.n - s, !.lo = f.lo + s, !.is_chapter = FALSE,
                        !.chapter_title = <<>>, !.chapter_key = -1]>>

\* Frame.split: Paragraph.split cuts at a line boundary when at least two
\* lines fit (no orphans), and the pieces are new paragraphs without the
\* attributes set on the original; a Spacer does not split.
Split(d, f) ==
    LET availHeight == d.avail - SpaceKept(d, f)
        s == availHeight \div Leading(f)
    IN IF ~IsParagraph(f) \/ availHeight <= 0 \/ s <= 1 THEN <<>>
       ELSE IF f.n <= s THEN <<f>>
       ELSE <<[f EXCEPT !.n = s, !.is_chapter = FALSE,
                        !.chapter_title = <<>>, !.chapter_key = -1],
              [f EXCEPT !.n = f.n - s, !.lo = f.lo + s, !.is_chapter = FALSE,
                        !.chapter_title = <<>>, !.chapter_key = -1]>>

\* BaseDocTemplate.handle_pageEnd: the canvas shows the page and a page
\* begin is left hanging.
handle_pageEnd(w) == [showPage(w) EXCEPT !.doc.hanging = TRUE]

\* BaseDocTemplate.clean_hanging: a hanging page begin resets the frame.
clean_hanging(w) ==
    IF w.doc.hanging
    THEN [w EXCEPT !.doc.hanging = FALSE, !.doc.avail = FrameHeight,
                   !.doc.atTop = TRUE, !.doc.prevASpace = 0]
    ELSE w

\* BaseDocTemplate.handle_flowable on the first flowable of the list: a
\* page break ends the page; a flowable that fits is drawn; a paragraph
\* that does not is split if it can be, its first piece drawn and the rest
\* put back; otherwise the flowable is put back and the page ended. (A
\* fresh frame holds a spacer and at least two lines of any paragraph, so
\* no flowable is put back twice and no LayoutError is raised.)
handle_flowable(w0) ==
    LET w1 == clean_hanging(w0)
        f == Head(w1.doc.flowables)
        w == [w1 EXCEPT !.doc.flowables = Tail(@)]
        S == Split(w.doc, f)
    IN IF f.kind = "PageBreak" THEN afterFlowable(handle_pageEnd(w), f)
       ELSE IF Fits(w.doc, f) THEN afterFlowable(Draw(w, f), f)
       ELSE IF S # <<>> THEN
            LET wd == afterFlowable(Draw(w, S[1]), S[1])
            IN [wd EXCEPT !.doc.flowables = Tail(S) \o @]
       ELSE handle_pageEnd([w EXCEPT !.doc.flowables = <<f>> \o @])

\* BaseDocTemplate._endBuild, before the canvas is saved: a page that was
\* begun is ended.
endBuild(w) == IF w.doc.hanging THEN w ELSE handle_pageEnd(w)

\* The states in which an exception of the canvas leaves doc.build in
\* pass 1. The canvas is called when a flowable is drawn (the flowable
\* is off the list, nothing of it is drawn) and when a page is ended
\* (showPage has captured the page and emptied the buffer, and
\* _startPage raises: the page's content is still in _code and the page
\* number is not advanced). With no page begun and no flowable left the
\* canvas is not called before save.
build_raises(w0) ==
    IF w0.doc.flowables = <<>>
    THEN IF w0.doc.hanging THEN {} ELSE {showPage_captured(w0)}
    ELSE LET w1 == clean_hanging(w0)
             f == Head(w1.doc.flowables)
             w == [w1 EXCEPT !.doc.flowables = Tail(@)]
         IN IF f.kind = "PageBreak" THEN {showPage_captured(w)}
            ELSE IF Fits(w.doc, f) \/ Split(w.doc, f) # <<>> THEN {w}
            ELSE {showPage_captured([w EXCEPT !.doc.flowables = <<f>> \o @])}

\* ------------------------------------------------------------------ PageNumCanvas.save

\* (The replay stopping after the first recorded call of the page.)
Replay_HeadOnly(w, entries) ==
    IF entries = <<>> THEN w
    ELSE LET e == Head(entries)
         IN IF e.tag = "bookmark" THEN super_bookmarkPage(w, e.key)
            ELSE IF e.tag = "outline"
                 THEN super_addOutlineEntry(w, e.title, e.key, e.level, e.closed)
                 ELSE w

\* The replay loop of PageNumCanvas.save over one page's recorded calls.
RECURSIVE Replay(_, _)
Replay(w, entries) ==
    IF entries = <<>> THEN w
    ELSE LET e == Head(entries)
             w1 == IF e.tag = "bookmark" THEN super_bookmarkPage(w, e.key)
                   ELSE IF e.tag = "outline"
                        THEN super_addOutlineEntry(w, e.title, e.key, e.level, e.closed)
                        ELSE w
         IN Replay(w1, Tail(entries))

\* The deferred calls of the page that PageNumCanvas.save is about to
\* replay: page.pop('_bookmarks', []) on self._saved_page_states[sv.idx].
save_bookmarks(w0) ==
    LET page == w0.canv._saved_page_states[w0.sv.idx]
    IN IF "_bookmarks" \in DOMAIN page THEN page._bookmarks ELSE <<>>

\* The start of one iteration of the loop of PageNumCanvas.save: the
\* page's '_bookmarks' is popped from the saved page state and the rest
\* of the state is put back on the canvas (self.__dict__.update(page)).
save_restore(w0) ==
    LET k == w0.sv.idx
        page == w0.canv._saved_page_states[k]
        popped == [x \in DOMAIN page \ {"_bookmarks"} |-> page[x]]
    IN [w0 EXCEPT !.canv._saved_page_states[k] = popped,
                  !.canv._pageNumber = page._pageNumber,
                  !.canv._code = page._code,
                  !.canv._current_page_bookmarks = page._current_page_bookmarks]

\* One iteration up to the call of super().showPage(): the page's calls
\* are replayed and the footer is drawn. After update(page), self._code
\* is the very list held by the saved page state, and the drawing calls
\* of the canvas append to that list in place (self._code.append), so
\* what the footer appends to the canvas is appended to the saved page
\* state as well.
save_drawn(w0) ==
    LET k == w0.sv.idx
        w2 == Replay(save_restore(w0), save_bookmarks(w0))
        w3 == IF w2.canv._pageNumber > 1 THEN draw_page_number(w2, w2.sv.page_count) ELSE w2
    IN [w3 EXCEPT !.canv._saved_page_states[k]._code = w3.canv._code]

\* One iteration of the loop of PageNumCanvas.save over the saved page
\* states: page is self._saved_page_states[sv.idx].
save_page(w0) == [super_showPage(save_drawn(w0)) EXCEPT !.sv.idx = @ + 1]

\* The states in which an exception of the canvas leaves an iteration of
\* the loop: raised by the call after m replayed ones (a super() call of
\* the replay, or the first drawing call of the footer, or
\* super().showPage() of a page without footer), or by super().showPage()
\* after the footer was drawn. The page's '_bookmarks' is popped in all.
save_page_raises(w0) ==
    { Replay(save_restore(w0), SubSeq(save_bookmarks(w0), 1, m)) :
         m \in 0..Len(save_bookmarks(w0)) }
    \cup { save_drawn(w0) }

\* (super().save() never writing the document.)
super_save_NoClose(w) ==
    IF w.canv._code # <<>> THEN showPage(w) ELSE w

\* canvas.Canvas.save (super): a page with pending code is shown first
\* (through the overridden showPage), then the document is written.
super_save(w) ==
    LET w1 == IF w.canv._code # <<>> THEN showPage(w) ELSE w
    IN [w1 EXCEPT !.pdf.saved = TRUE,
                  !.pdf.log = @ \o <<[ev |-> "save", page |-> Len(w1.pdf.pages),
                                      during |-> w.pc]>>]

\* ------------------------------------------------------------------ state machine

\* The program's state as one value, for the operators above.
World == [pc |-> pc, doc |-> doc, canv |-> canv, sv |-> sv, pdf |-> pdf]

\* The state doc.build starts from: no page begun, an empty canvas on
\* page number 1, nothing written.
StartWorld(flowables) ==
    [pc |-> "build",
     doc |-> [flowables |-> flowables, hanging |-> TRUE,
              avail |-> FrameHeight, atTop |-> TRUE, prevASpace |-> 0],
     canv |-> [_pageNumber |-> 1, _code |-> <<>>, _saved_page_states |-> <<>>,
               _current_page_bookmarks |-> <<>>],
     sv |-> [page_count |-> 0, idx |-> 1],
     pdf |-> [pages |-> <<>>, log |-> <<>>, saved |-> FALSE]]

\* The input files: every sequence of at most MaxLines lines.
Inputs == UNION { [1..k -> LineChoices] : k \in 0..MaxLines }

Init ==
    /\ raw \in Inputs
    /\ lines = <<>>
    /\ pc = "start"
    /\ story = <<>>
    /\ doc = StartWorld(<<>>).doc
    /\ canv = StartWorld(<<>>).canv
    /\ sv = StartWorld(<<>>).sv
    /\ pdf = StartWorld(<<>>).pdf

Become(w) ==
    /\ pc' = w.pc
    /\ doc' = w.doc
    /\ canv' = w.canv
    /\ sv' = w.sv
    /\ pdf' = w.pdf

\* Step 3 of convert_s2t_txt_to_pdf: the file is read, stripped, converted.
Read ==
    /\ pc = "start"
    /\ lines' = ReadLines(raw)
    /\ pc' = "compose"
    /\ UNCHANGED <<raw, story, doc, canv, sv, pdf>>

\* Step 2: the font file is not there; the function logs and returns
\* before the input is opened.
FontMissing ==
    /\ pc = "start"
    /\ pc' = "no_font"
    /\ UNCHANGED <<raw, lines, story, doc, canv, sv, pdf>>

\* Step 3: the file cannot be opened or decoded; the exception is caught,
\* the function logs and returns.
ReadFails ==
    /\ pc = "start"
    /\ pc' = "read_failed"
    /\ UNCHANGED <<raw, lines, story, doc, canv, sv, pdf>>

\* Step 6: the story is built, and doc.build starts on it.
Compose ==
    /\ pc = "compose"
    /\ story' = BuildStory(lines)
    /\ Become(StartWorld(BuildStory(lines)))
    /\ UNCHANGED <<raw, lines>>

\* doc.build: one flowable of the story is handled.
HandleFlowable ==
    /\ pc = "build"
    /\ doc.flowables # <<>>
    /\ Become(handle_flowable(World))
    /\ UNCHANGED <<raw, lines, story>>

\* doc.build: the story is used up; the last page is ended and
\* PageNumCanvas.save begins: page_count = len(self._saved_page_states).
EndBuild ==
    /\ pc = "build"
    /\ doc.flowables = <<>>
    /\ LET w == endBuild(World)
       IN Become([w EXCEPT !.pc = "save",
                           !.sv = [page_count |-> Len(w.canv._saved_page_states), idx |-> 1]])
    /\ UNCHANGED <<raw, lines, story>>

\* PageNumCanvas.save: one saved page is replayed, stamped and committed.
SavePage ==
    /\ pc = "save"
    /\ sv.idx <= sv.page_count
    /\ Become(save_page(World))
    /\ UNCHANGED <<raw, lines, story>>

\* PageNumCanvas.save: after the loop, super().save() writes the file.
SaveFinish ==
    /\ pc = "save"
    /\ sv.idx > sv.page_count
    /\ Become([super_save(World) EXCEPT !.pc = "done"])
    /\ UNCHANGED <<raw, lines, story>>

\* The canvas raises while the document is built or saved: nothing in
\* convert_s2t_txt_to_pdf catches it, and the run ends there. In pass 1
\* the exception leaves doc.build inside the handling of a flowable or
\* the end of a page; nothing has reached the document. In pass 2 it
\* leaves the loop of save inside an iteration, or super().save() after
\* the loop.
CanvasFault ==
    /\ pc \in {"build", "save"}
    /\ IF pc = "build"
       THEN \E w \in build_raises(World) : Become([w EXCEPT !.pc = "failed1"])
       ELSE IF sv.idx <= sv.page_count
       THEN \E w \in save_page_raises(World) : Become([w EXCEPT !.pc = "failed2"])
       ELSE /\ pc' = "failed2"
            /\ UNCHANGED <<doc, canv, sv, pdf>>
    /\ UNCHANGED <<raw, lines, story>>

Next ==
    \/ FontMissing
    \/ ReadFails
    \/ Read
    \/ Compose
    \/ HandleFlowable
    \/ EndBuild
    \/ SavePage
    \/ SaveFinish
    \/ CanvasFault

Spec == Init /\ [][Next]_vars

\* The steps of a run in which the canvas raises nothing.
NextNoFault ==
    \/ FontMissing
    \/ ReadFails
    \/ Read
    \/ Compose
    \/ HandleFlowable
    \/ EndBuild
    \/ SavePage
    \/ SaveFinish

\* The runs without a canvas fault: convert_s2t_txt_to_pdf is one
\* sequential call, so a step that can be taken is taken.
FaultFreeSpec == Init /\ [][NextNoFault]_vars /\ WF_vars(NextNoFault)

\* ------------------------------------------------------------------ helpers of the claims

\* The pages captured in pass 1.
Saved == canv._saved_page_states

\* Pass 1 is over.
Pass1Over == pc \in {"save", "done", "failed2"}

\* The story has been built.
Composed == pc \notin {"start", "no_font", "read_failed", "compose"}

\* The indices (from 0) of the non-blank lines.
NonBlank == { i \in 0..(Len(lines) - 1) : lines[i + 1].text # <<>> }

\* The positions in the story of the chapter headings.
HeadingPositions == { j \in 1..Len(story) : story[j].kind = "Chapter" }

\* The real registrations made on the canvas, in order.
Registrations == SelectSeq(pdf.log, LAMBDA e : e.ev \in {"bookmarkPage", "addOutlineEntry"})

\* The footers drawn on a committed page.
Footers(page) == SelectSeq(page.code, LAMBDA x : x.kind = "Footer")

\* The pieces of paragraphs and spacers on a page (without footers).
Blocks(code) == SelectSeq(code, LAMBDA x : x.kind # "Footer")

\* What pass 1 placed on a captured page (pass 2 appends the page's
\* footer to the captured list).
PlacedOn(page) == Blocks(page._code)

\* Page p (from 0) of pass 1 holds the heading paragraph with key k.
HeadingCapturedOn(k, p) ==
    /\ p < Len(Saved)
    /\ \E j \in 1..Len(PlacedOn(Saved[p + 1])) :
          LET x == PlacedOn(Saved[p + 1])[j]
          IN x.kind = "Chapter" /\ x.is_chapter /\ x.chapter_key = k

\* The committed page p (from 0) holds the heading paragraph with key k.
HeadingCommittedOn(k, p) ==
    /\ p < Len(pdf.pages)
    /\ \E j \in 1..Len(pdf.pages[p + 1].code) :
          LET x == pdf.pages[p + 1].code[j]
          IN x.kind = "Chapter" /\ x.is_chapter /\ x.chapter_key = k

\* ------------------------------------------------------------------ C1

\* C1 (as claimed): once the document is written, the first non-blank line
\* of a non-empty input is the Title block and the only block on page 0,
\* wherever it sits in the input.
C1_FirstNonBlankIsTitle ==
    (pc = "done" /\ NonBlank # {}) =>
        LET f == CHOOSE i \in NonBlank : \A j \in NonBlank : i <= j
        IN /\ Len(pdf.pages) >= 1
           /\ pdf.pages[1].code # <<>>
           /\ \A j \in 1..Len(pdf.pages[1].code) :
                 LET x == pdf.pages[1].code[j] IN x.kind = "Title" /\ x.src = f

\* ------------------------------------------------------------------ C2

\* C2: in pass 2 and after it, of the N pages captured, every committed
\* page of index 0 carries no footer and every committed page of index
\* k >= 1 carries exactly one footer, stamped K = k of TOTAL = N - 1,
\* with 1 <= K <= TOTAL; when pass 2 is done all N pages are committed.
C2_FooterCorrect ==
    Pass1Over =>
        /\ pc = "done" => Len(pdf.pages) = Len(Saved)
        /\ \A k \in 1..Len(pdf.pages) :
              LET fs == Footers(pdf.pages[k])
              IN IF k = 1 THEN fs = <<>>
                 ELSE /\ Len(fs) = 1
                      /\ fs[1].current_page = k - 1
                      /\ fs[1].total = Len(Saved) - 1
                      /\ 1 <= fs[1].current_page
                      /\ fs[1].current_page <= fs[1].total

C2_Witness ==
    /\ pc = "done"
    /\ Len(pdf.pages) >= 3
    /\ Footers(pdf.pages[3]) # <<>>

\* ------------------------------------------------------------------ C3

\* C3: every bookmark and navigation entry registered in pass 2 is bound
\* to the page on which pass 1 placed its heading paragraph, and that is
\* the page committed with the heading on it.
C3_BookmarkOnHeadingPage ==
    \A j \in 1..Len(Registrations) :
        LET e == Registrations[j]
        IN /\ HeadingCapturedOn(e.key, e.page)
           /\ e.page < Len(pdf.pages) => HeadingCommittedOn(e.key, e.page)

C3_Witness ==
    /\ pc = "done"
    /\ \E j \in 1..Len(Registrations) :
          Registrations[j].page >= 2 /\ HeadingCommittedOn(Registrations[j].key, Registrations[j].page)

\* ------------------------------------------------------------------ C4

\* The navigation entries registered on the canvas, in order.
NavEntries ==
    LET es == SelectSeq(pdf.log, LAMBDA e : e.ev = "addOutlineEntry")
    IN [j \in 1..Len(es) |-> <<es[j].key, es[j].title>>]

\* The chapter headings of the story, in document order.
Headings ==
    LET hs == SelectSeq(story, LAMBDA f : f.kind = "Chapter")
    IN [j \in 1..Len(hs) |-> <<hs[j].chapter_key, hs[j].chapter_title>>]

\* C4 (as claimed): once pass 2 is done, the navigation entries registered
\* on the canvas are exactly the chapter headings in document order.
C4_NavEntriesAreHeadings == pc = "done" => NavEntries = Headings

\* ------------------------------------------------------------------ C5

\* C5: no bookmark or navigation entry is registered on the real canvas
\* during pass 1; each is registered during pass 2, before the commit of
\* the page its heading was placed on, and that commit follows.
C5_RegistrationsInPass2BeforeCommit ==
    /\ pc \in {"start", "no_font", "read_failed", "compose", "build", "failed1"} => Registrations = <<>>
    /\ \A j \in 1..Len(pdf.log) :
          LET e == pdf.log[j]
          IN e.ev \in {"bookmarkPage", "addOutlineEntry"} =>
                /\ e.during = "save"
                /\ \A i \in 1..(j - 1) :
                      pdf.log[i].ev = "showPage" => ~HeadingCapturedOn(e.key, pdf.log[i].page)
                /\ pc = "done" =>
                      \E i \in (j + 1)..Len(pdf.log) :
                          pdf.log[i].ev = "showPage" /\ HeadingCapturedOn(e.key, pdf.log[i].page)

C5_Witness ==
    /\ pc = "done"
    /\ Len(Registrations) >= 4

\* ------------------------------------------------------------------ C6

\* C6: while pass 1 runs, and after a fault in it, no page is committed
\* and nothing is written; a page is committed only when every flowable
\* has been laid out and the page count taken is that of the captured pages.
C6_NoCommitDuringPass1 ==
    /\ pc \in {"start", "no_font", "read_failed", "compose", "build", "failed1"} =>
          /\ pdf.pages = <<>>
          /\ pdf.log = <<>>
          /\ ~pdf.saved
    /\ pdf.pages # <<>> =>
          /\ Pass1Over
          /\ doc.flowables = <<>>
          /\ sv.page_count = Len(Saved)

C6_Witness ==
    /\ pc = "failed1"
    /\ Len(Saved) >= 2
    /\ pdf.pages = <<>>

\* ------------------------------------------------------------------ C7

\* The heading at position j of the story has a page break of its own
\* (made by the same line) right before it.
OwnBreak(j) ==
    /\ j > 1
    /\ story[j - 1].kind = "PageBreak"
    /\ story[j - 1].src = story[j].src

\* The paragraph of line i starts page p (from 0) of pass 1.
StartsPage(i, p) ==
    /\ PlacedOn(Saved[p + 1]) # <<>>
    /\ PlacedOn(Saved[p + 1])[1].kind = "Chapter"
    /\ PlacedOn(Saved[p + 1])[1].src = i
    /\ PlacedOn(Saved[p + 1])[1].lo = 1

\* The input is a title line that fits on a page, followed by two headings.
TitleAndTwoHeadings ==
    /\ Len(lines) = 3
    /\ lines[1].text # <<>>
    /\ lines[1].n * TITLE_LEADING <= FrameHeight
    /\ chapter_match(lines[2].text)
    /\ chapter_match(lines[3].text)

\* C7: of the chapter headings in document order, the first has no page
\* break of its own and every later one has; every later heading starts
\* its page; a title line followed by two headings gives page 0 = the
\* title alone, page 1 = the first heading, page 2 = the second heading.
C7_FirstHeadingExempt ==
    Composed =>
        /\ \A j \in HeadingPositions :
              OwnBreak(j) <=> (\E h \in HeadingPositions : h < j)
        /\ Pass1Over =>
              \A j \in HeadingPositions :
                  (\E h \in HeadingPositions : h < j) =>
                      \E p \in 0..(Len(Saved) - 1) : StartsPage(story[j].src, p)
        /\ (Pass1Over /\ TitleAndTwoHeadings) =>
              /\ Len(Saved) = 3
              /\ Len(PlacedOn(Saved[1])) = 1
              /\ PlacedOn(Saved[1])[1].kind = "Title"
              /\ StartsPage(1, 1)
              /\ StartsPage(2, 2)
              /\ Len(PlacedOn(Saved[3])) = 1

C7_Witness ==
    /\ pc = "done"
    /\ TitleAndTwoHeadings
    /\ Len(pdf.pages) = 3

\* ------------------------------------------------------------------ C8

\* doc.build up to the call of canvas.save: every flowable is handled,
\* then the last page is ended.
RECURSIVE RunBuild(_)
RunBuild(w) ==
    IF w.doc.flowables = <<>> THEN endBuild(w) ELSE RunBuild(handle_flowable(w))

\* The pages composed from an input file.
Composition(file) == RunBuild(StartWorld(BuildStory(ReadLines(file)))).canv._saved_page_states

\* The blocks of each page: their roles and the text lines they hold.
Shape(pages) ==
    [p \in 1..Len(pages) |->
        [j \in 1..Len(PlacedOn(pages[p])) |->
            LET x == PlacedOn(pages[p])[j] IN <<x.kind, x.lo, x.n>>]]

\* The input file without its empty and whitespace-only lines.
RemoveBlanks(file) == SelectSeq(file, LAMBDA l : strip(l.text) # <<>>)

\* C8 (as claimed): the blocks, their roles and their pages at the end of
\* pass 1 are those composed from the input without its blank lines.
C8_BlankLinesIgnored ==
    (pc = "save" /\ sv.idx = 1) => Shape(Saved) = Shape(Composition(RemoveBlanks(raw)))

\* ------------------------------------------------------------------ C9

\* The calls recorded on the captured pages, in page order.
RECURSIVE RecordedFrom(_)
RecordedFrom(pages) ==
    IF pages = <<>> THEN <<>>
    ELSE Head(pages)._bookmarks \o RecordedFrom(Tail(pages))

\* The bookmarks recorded in pass 1.
RecordedBookmarks == SelectSeq(RecordedFrom(Saved), LAMBDA e : e.tag = "bookmark")

\* C9 (as claimed): at the end of pass 1 there is exactly one bookmark for
\* every chapter heading of the story, none for any other line, and no
\* two bookmarks share an id.
C9_OneBookmarkPerHeading ==
    (pc = "save" /\ sv.idx = 1) =>
        LET bm == RecordedBookmarks
        IN /\ \A j \in HeadingPositions :
                 Cardinality({x \in 1..Len(bm) : bm[x].key = story[j].chapter_key}) = 1
           /\ \A x \in 1..Len(bm) :
                 \E j \in HeadingPositions : bm[x].key = story[j].chapter_key
           /\ \A x, y \in 1..Len(bm) : x # y => bm[x].key # bm[y].key

\* ------------------------------------------------------------------ C10

\* The pieces placed on the captured pages, in order, each with its page
\* (from 0) and its position on the page.
RECURSIVE PlacedFrom(_, _)
PlacedFrom(pages, p) ==
    IF pages = <<>> THEN <<>>
    ELSE [j \in 1..Len(PlacedOn(Head(pages))) |->
             [page |-> p, pos |-> j, last |-> j = Len(PlacedOn(Head(pages))),
              piece |-> PlacedOn(Head(pages))[j]]]
         \o PlacedFrom(Tail(pages), p + 1)

Placed == PlacedFrom(Saved, 0)

\* The placed pieces of the flowable at position j of the story.
PiecesOf(j) ==
    SelectSeq(Placed, LAMBDA x : x.piece.src = story[j].src /\ x.piece.kind = story[j].kind)

\* C10 (as claimed): every block is placed on exactly one page (stated
\* for the blocks that a page can hold whole).
C10_BlocksNeverSplit ==
    Pass1Over =>
        \A j \in 1..Len(story) :
            (story[j].kind # "PageBreak" /\ Height(story[j]) <= FrameHeight) =>
                Len(PiecesOf(j)) = 1

\* The number of text lines of paragraph f that fit in what is left of
\* the frame d.
LinesThatFit(d, f) ==
    LET room == d.avail - SpaceKept(d, f)
    IN IF room <= 0 THEN 0 ELSE room \div Leading(f)

\* The frame the next flowable meets: a fresh one when a page begin hangs.
FrameMet == clean_hanging(World).doc

\* The page the next flowable meets: empty when a page begin hangs.
CodeMet == canv._code

\* The next flowable is a paragraph that does not fit in what is left of
\* the page.
ParagraphDoesNotFit ==
    /\ pc = "build"
    /\ doc.flowables # <<>>
    /\ IsParagraph(Head(doc.flowables))
    /\ Head(doc.flowables).n > LinesThatFit(FrameMet, Head(doc.flowables))

\* C10 (amended): every text line of every paragraph is placed once, in
\* order, and a spacer is placed once, whole. A paragraph on more than one
\* page is cut at line boundaries: each piece but the last holds at least
\* two lines and ends its page, and the next piece starts the next page.
\* When a paragraph does not fit in what is left of the page, the lines
\* that fit are placed there and the rest is kept for the next page if
\* at least two lines fit; otherwise the page is ended and the paragraph
\* is kept whole for the next page.
C10_SplitAtLineBoundary ==
    /\ Pass1Over =>
          \A j \in 1..Len(story) :
              LET ps == PiecesOf(j)
              IN story[j].kind # "PageBreak" =>
                    /\ Len(ps) >= 1
                    /\ story[j].kind = "Spacer" => Len(ps) = 1
                    /\ ps[1].piece.lo = 1
                    /\ ps[Len(ps)].piece.lo + ps[Len(ps)].piece.n - 1 = story[j].n
                    /\ \A k \in 1..(Len(ps) - 1) :
                          /\ ps[k].piece.n >= 2
                          /\ ps[k].last
                          /\ ps[k + 1].piece.lo = ps[k].piece.lo + ps[k].piece.n
                          /\ ps[k + 1].page = ps[k].page + 1
                          /\ ps[k + 1].pos = 1
    /\ ParagraphDoesNotFit =>
          LET f == Head(doc.flowables)
              fit == LinesThatFit(FrameMet, f)
              w == handle_flowable(World)
          IN IF fit >= 2
             THEN /\ Len(w.canv._saved_page_states) = Len(Saved)
                  /\ w.canv._code = CodeMet \o <<w.canv._code[Len(w.canv._code)]>>
                  /\ w.canv._code[Len(w.canv._code)].src = f.src
                  /\ w.canv._code[Len(w.canv._code)].lo = f.lo
                  /\ w.canv._code[Len(w.canv._code)].n = fit
                  /\ Head(w.doc.flowables).src = f.src
                  /\ Head(w.doc.flowables).lo = f.lo + fit
                  /\ Head(w.doc.flowables).n = f.n - fit
             ELSE /\ Len(w.canv._saved_page_states) = Len(Saved) + 1
                  /\ w.canv._code = <<>>
                  /\ w.doc.flowables = doc.flowables

C10_Witness ==
    /\ Pass1Over
    /\ \E j \in 1..Len(story) : story[j].kind = "Body" /\ Len(PiecesOf(j)) = 2
    /\ \E j \in 1..Len(story) :
          /\ story[j].kind = "Body"
          /\ Len(PiecesOf(j)) = 1
          /\ PiecesOf(j)[1].pos = 1
          /\ PiecesOf(j)[1].page >= 2

\* ------------------------------------------------------------------ C11

\* C11 (as claimed): when the input has no non-blank line, the finished
\* document is one empty title page: exactly one page is committed, with
\* nothing on it and no footer.
C11_EmptyInputOneTitlePage ==
    (pc = "done" /\ NonBlank = {}) =>
        /\ Len(pdf.pages) = 1
        /\ Blocks(pdf.pages[1].code) = <<>>
        /\ Footers(pdf.pages[1]) = <<>>

\* ------------------------------------------------------------------ C12, C13

\* PageNumCanvas.save, from the loop over the saved page states to
\* super().save().
RECURSIVE RunSave(_)
RunSave(w) ==
    IF w.sv.idx <= w.sv.page_count THEN RunSave(save_page(w)) ELSE super_save(w)

\* PageNumCanvas.save called on the canvas of world w.
save(w) ==
    RunSave([w EXCEPT !.pc = "save",
                      !.sv = [page_count |-> Len(w.canv._saved_page_states), idx |-> 1]])

\* The bookmarks and navigation entries registered by the events of a
\* log, in order.
RegisteredIn(log) ==
    LET es == SelectSeq(log, LAMBDA e : e.ev \in {"bookmarkPage", "addOutlineEntry"})
    IN [j \in 1..Len(es) |-> <<es[j].ev, es[j].key>>]

\* The events logged by one more run of pass 2 on the page states the
\* canvas holds.
SecondRunLog ==
    LET w == save(World)
    IN SubSeq(w.pdf.log, Len(pdf.log) + 1, Len(w.pdf.log))

\* C12 (as claimed): when pass 2 is done, one more run of pass 2 on the
\* same captured page states registers the same bookmarks and navigation
\* entries, in the same order, as the run before it.
C12_ReplayIdempotent ==
    pc = "done" => RegisteredIn(SecondRunLog) = RegisteredIn(pdf.log)

\* C13 (as claimed): from the end of pass 1 on, through pass 2 and after
\* it, the captured page states are those that pass 1 captured, their
\* lists of deferred instructions included.
C13_PageStatesImmutable ==
    Pass1Over => Saved = Composition(raw)

\* ------------------------------------------------------------------ C14

\* The deferred instructions that the paragraphs drawn in a page's code
\* give rise to, in the order of the paragraphs.
RECURSIVE EntriesFor(_)
EntriesFor(code) ==
    IF code = <<>> THEN <<>>
    ELSE LET x == Head(code)
         IN (IF IsParagraph(x) /\ x.is_chapter
             THEN <<[tag |-> "bookmark", key |-> x.chapter_key],
                    [tag |-> "outline", title |-> x.chapter_title, key |-> x.chapter_key,
                     level |-> 0, closed |-> TRUE]>>
             ELSE <<>>)
            \o EntriesFor(Tail(code))

\* Pass 1 is running or has just ended: no captured page has been replayed.
NothingReplayed == pc \in {"build", "failed1"} \/ (pc = "save" /\ sv.idx = 1)

\* C14: during pass 1 and at its end, every captured page state holds
\* exactly the deferred instructions recorded for the paragraphs drawn on
\* its page since the capture before it, in recording order, and does not
\* hold the list of the page states captured before; the per-page buffer
\* holds only the instructions of the page being drawn and is empty right
\* after a capture (also when the canvas raises right after the capture,
\* the captured content still on the canvas); no instruction is held by
\* two page states.
C14_CaptureHoldsOwnInstructions ==
    NothingReplayed =>
        /\ \A k \in 1..Len(Saved) :
              /\ "_saved_page_states" \notin DOMAIN Saved[k]
              /\ Saved[k]._bookmarks = EntriesFor(Saved[k]._code)
        /\ \/ canv._current_page_bookmarks = EntriesFor(canv._code)
           \/ /\ pc = "failed1"
              /\ Saved # <<>>
              /\ Saved[Len(Saved)]._code = canv._code
              /\ canv._current_page_bookmarks = <<>>
        /\ canv._code = <<>> => canv._current_page_bookmarks = <<>>
        /\ \A k1, k2 \in 1..Len(Saved) :
              k1 # k2 =>
                 \A i \in 1..Len(Saved[k1]._bookmarks) :
                    \A j \in 1..Len(Saved[k2]._bookmarks) :
                       Saved[k1]._bookmarks[i] # Saved[k2]._bookmarks[j]

C14_Witness ==
    /\ pc = "build"
    /\ Len(Saved) >= 2
    /\ Saved[1]._bookmarks # <<>>
    /\ Saved[2]._bookmarks # <<>>
    /\ canv._code = <<>>
    /\ doc.flowables # <<>>

\* ------------------------------------------------------------------ C15

\* The registrations that issuing a list of deferred instructions makes.
IssuedForm(entries) ==
    [j \in 1..Len(entries) |->
        <<IF entries[j].tag = "bookmark" THEN "bookmarkPage" ELSE "addOutlineEntry",
          entries[j].key>>]

\* The commits of pages in a log, in order.
Commits(log) == SelectSeq(log, LAMBDA e : e.ev = "showPage")

\* C15: in pass 2 and when it is done, with k pages replayed, the
\* registrations made are exactly the deferred instructions that pass 1
\* recorded on the first k pages, each once and in recording order, and
\* the pages committed are exactly the first k captured pages, each once
\* and in capture order; when the run is done all the captured pages are
\* committed, as many as were captured.
C15_EachIssuedAndCommittedOnce ==
    pc \in {"save", "done"} =>
        LET captured == Composition(raw)
            k == sv.idx - 1
        IN /\ Len(captured) = Len(Saved)
           /\ k <= Len(captured)
           /\ pc = "done" => k = Len(captured)
           /\ RegisteredIn(pdf.log) = IssuedForm(RecordedFrom(SubSeq(captured, 1, k)))
           /\ Len(pdf.pages) = k
           /\ Len(Commits(pdf.log)) = k
           /\ \A i \in 1..k :
                 /\ Commits(pdf.log)[i].page = i - 1
                 /\ pdf.pages[i].number = captured[i]._pageNumber
                 /\ Blocks(pdf.pages[i].code) = captured[i]._code

C15_Witness ==
    /\ pc = "done"
    /\ Len(pdf.pages) >= 3
    /\ Len(RegisteredIn(pdf.log)) >= 4

\* ------------------------------------------------------------------ C16

\* The page (from 0) on which the last piece of the flowable at position
\* j of the story is placed.
LastPageOf(j) == PiecesOf(j)[Len(PiecesOf(j))].page

\* C16 (as claimed): at the end of pass 1, the blank gap that follows a
\* body paragraph is on the page that holds the end of the paragraph:
\* the paragraph never ends one page with its gap on the next.
C16_GapStaysWithParagraph ==
    Pass1Over =>
        \A j \in 1..(Len(story) - 1) :
            (story[j].kind = "Body" /\ story[j + 1].kind = "Spacer") =>
                LastPageOf(j + 1) = LastPageOf(j)

\* ------------------------------------------------------------------ C18

\* C18: every navigation entry registered on the canvas is registered in
\* pass 2 right after the bookmark of the same id, with no commit or other
\* registration between the two, so both are bound to the same page and
\* the entry never names a bookmark that is not yet registered.
C18_BookmarkRightBeforeEntry ==
    \A j \in 1..Len(pdf.log) :
        pdf.log[j].ev = "addOutlineEntry" =>
            /\ pdf.log[j].during = "save"
            /\ j > 1
            /\ pdf.log[j - 1].ev = "bookmarkPage"
            /\ pdf.log[j - 1].key = pdf.log[j].key
            /\ pdf.log[j - 1].page = pdf.log[j].page
            /\ pdf.log[j - 1].during = "save"

C18_Witness ==
    /\ pc = "done"
    /\ \E i, j \in 1..Len(pdf.log) :
          /\ pdf.log[i].ev = "addOutlineEntry"
          /\ pdf.log[j].ev = "addOutlineEntry"
          /\ pdf.log[i].page < pdf.log[j].page

\* ------------------------------------------------------------------ C17

\* The renderer's phase as a rank: Idle 0 (nothing laid out yet),
\* Emitting 1 (doc.build is laying out the story), Captured 2 (every page
\* captured, the page count taken, no page replayed), Finalizing 3 (the
\* loop of save is replaying and committing pages), Done 4.
Rank ==
    IF pc \in {"start", "no_font", "read_failed", "compose"} THEN 0
    ELSE IF pc \in {"build", "failed1"} THEN 1
    ELSE IF pc = "done" THEN 4
    ELSE IF sv.idx = 1 THEN 2
    ELSE 3

\* The times the canvas was closed (the document written).
Closes == SelectSeq(pdf.log, LAMBDA e : e.ev = "save")

\* The canvas was closed once, as the last thing done to it, with every
\* captured page committed.
ClosedOnceAfterLastCommit ==
    /\ pdf.saved
    /\ Len(Closes) = 1
    /\ pdf.log[Len(pdf.log)].ev = "save"
    /\ Len(pdf.pages) = Len(Saved)
    /\ pdf.log[Len(pdf.log)].page = Len(Saved)

\* C17: in a run without a canvas fault the renderer goes through Idle,
\* Emitting, Captured, Finalizing and Done in that order, one phase at a
\* time and never back (with no page captured there is nothing to
\* finalize and Captured is followed by Done); the run eventually
\* reaches Done, whatever the input holds, unless it returned before the
\* input was read (the font or the file missing), which can happen only
\* at the start, in Idle; the canvas is not closed before Done and, at
\* Done, has been closed exactly once, after the commit of the last
\* captured page.
C17_PhasesInOrderToDone ==
    /\ [][\/ Rank' = Rank
          \/ Rank' = Rank + 1
          \/ (Saved = <<>> /\ Rank = 2 /\ Rank' = 4)]_vars
    /\ <>(pc \in {"done", "no_font", "read_failed"})
    /\ [][pc' \in {"no_font", "read_failed"} => pc = "start"]_vars
    /\ [](pc # "done" => (~pdf.saved /\ Closes = <<>>))
    /\ [](pc = "done" => ClosedOnceAfterLastCommit)

C17_Witness ==
    /\ pc = "done"
    /\ Len(Saved) >= 3
    /\ ClosedOnceAfterLastCommit
    /\ Len(Commits(pdf.log)) = Len(Saved)

====
